---- MODULE Spec2Model ----
(***************************************************************************)
(* State-machine model of BCSFE-Python's Enigma record codec and name      *)
(* table (core/game/map/enigma.py), of the bounded field editor            *)
(* (cli/dialog_creator.py) and of the versioned asset fetcher              *)
(* (core/server/game_data_getter.py, core/server/request.py).              *)
(*                                                                         *)
(* Conventions.  A Python Optional[int] is a sequence: <<>> is None and    *)
(* <<v>> is the integer v.  A line of console input is a sequence of       *)
(* one-character strings, so that int() and str.split() are computed and   *)
(* not assumed.  A Python list is a sequence; a zero-based Python index i  *)
(* is position i + 1.                                                      *)
(***************************************************************************)
EXTENDS Integers, Sequences, FiniteSets, TLC

VARIABLES
    disable_maxes,  \* io.config Key.DISABLE_MAXES, read by get_max_value
    ii,             \* an IntInput object
    iiPc,           \* get_input_while: "prompting" | "returned"
    iiLine,         \* the line read by the last get_input (NoLine before any)
    iiVal,          \* int_val returned by the last get_input
    iiRet,          \* the value get_input_while returned
    iiPrompts,      \* prompts issued by the running get_input_while
    enigma,         \* save_file.enigma, the Enigma record being edited
    enigma_names,   \* EnigmaNames(save_file).enigma_names: id -> Optional name
    data,           \* the primitives Enigma.write emitted (<<>> before a write)
    encoded,        \* the record that was passed to the last Enigma.write
    redata,         \* the primitives of the write that follows a read
    cpc,            \* codec position: "edit" | "written" | "read" | "rewritten"
    edits,          \* edit_enigma calls so far
    editErr,        \* TRUE when the last edit_enigma raised KeyError
    wipe_in,        \* the line the last edit_enigma read at the wipe question (NoLine if none)
    menu_in,        \* the line the last edit_enigma read at the stage menu (NoLine if none)
    se,             \* a SingleEditor object
    sePc,           \* SingleEditor.edit: "prompting" | "returned"
    seLine,         \* the last line SingleEditor.edit read
    seRet,          \* the value SingleEditor.edit returned
    me,             \* a MultiEditor object
    mePc,           \* "ready" | "edit_all" | "edit_one" | "returned" | "raised"
    meChoices,      \* the zero-based choices of the running edit
    mePos,          \* edit_one: the number of the choice being asked
    meBound,        \* edit_all: max_max_value as passed to the prompt
    mePrior,        \* self.ints when the running edit was called
    meLine,         \* the last line read at a value prompt of the editor
    meAll,          \* all_at_once of the running edit
    meCalls,        \* calls of MultiEditor.edit so far
    ci,             \* a ChoiceInput object
    ciN,            \* len(ci.items) when the last menu was shown
    ciLine,         \* the line answered to the last menu
    ciRet,          \* what the last multiple_choice returned
    ciCalls,        \* menus shown so far
    gdg,            \* a GameDataGetter object: url root aside, cc, lang, versions
    cache,          \* local storage under game_data: a set of <<path, bytes>>
    firstSaved,     \* for every path, the bytes of the first write to it
    gets,           \* network GETs issued so far by the fetcher
    dl,             \* the running call of download / get_file / is_downloaded
    batch,          \* the running call of download_all
    tasks,          \* the worker tasks download_all dispatched
    order,          \* the tasks of the batch in the order they finished
    names_file,     \* the persisted name table engima_names/<cc>.json
    ns              \* the running EnigmaNames session (construction of the object)

intVars == <<ii, iiPc, iiLine, iiVal, iiRet, iiPrompts>>
codecVars == <<enigma, enigma_names, data, encoded, redata, cpc, edits, editErr, wipe_in, menu_in>>
singleVars == <<se, sePc, seLine, seRet>>
multiVars == <<me, mePc, meChoices, mePos, meBound, mePrior, meLine, meAll, meCalls>>
choiceVars == <<ci, ciN, ciLine, ciRet, ciCalls>>
fetchVars == <<gdg, cache, firstSaved, gets, dl, batch, tasks, order>>
namesVars == <<names_file, ns>>
vars == <<disable_maxes, namesVars, fetchVars, intVars, codecVars, singleVars, multiVars, choiceVars>>

-----------------------------------------------------------------------------
(* Python values                                                           *)

None == <<>>
Some(v) == <<v>>
Val(o) == o[1]

Min(a, b) == IF a <= b THEN a ELSE b
Max(a, b) == IF a >= b THEN a ELSE b

\* A marker for "no line was read yet"; no console line equals it.
NoLine == <<"<none>">>

Digits == {"0", "1", "2", "3", "4", "5", "6", "7", "8", "9"}

DigitVal(c) ==
    CASE c = "0" -> 0 [] c = "1" -> 1 [] c = "2" -> 2 [] c = "3" -> 3
      [] c = "4" -> 4 [] c = "5" -> 5 [] c = "6" -> 6 [] c = "7" -> 7
      [] c = "8" -> 8 [] c = "9" -> 9

RECURSIVE LStrip(_)
LStrip(s) == IF s # <<>> /\ Head(s) = " " THEN LStrip(Tail(s)) ELSE s

RECURSIVE RStrip(_)
RStrip(s) ==
    IF s # <<>> /\ s[Len(s)] = " " THEN RStrip(SubSeq(s, 1, Len(s) - 1)) ELSE s

RECURSIVE DigitsValue(_, _)
DigitsValue(s, acc) ==
    IF s = <<>> THEN acc ELSE DigitsValue(Tail(s), 10 * acc + DigitVal(Head(s)))

AllDigits(s) == s # <<>> /\ \A i \in 1..Len(s) : s[i] \in Digits

\* Python's int(str): surrounding blanks stripped, an optional sign, then
\* decimal digits; None stands for ValueError.
int(s) ==
    LET t == RStrip(LStrip(s)) IN
    IF t = <<>> THEN None
    ELSE IF Head(t) = "-"
         THEN IF AllDigits(Tail(t)) THEN Some(0 - DigitsValue(Tail(t), 0)) ELSE None
    ELSE IF Head(t) = "+"
         THEN IF AllDigits(Tail(t)) THEN Some(DigitsValue(Tail(t), 0)) ELSE None
    ELSE IF AllDigits(t) THEN Some(DigitsValue(t, 0)) ELSE None

RECURSIVE SplitAcc(_, _, _)
SplitAcc(s, cur, out) ==
    IF s = <<>> THEN Append(out, cur)
    ELSE IF Head(s) = " " THEN SplitAcc(Tail(s), <<>>, Append(out, cur))
    ELSE SplitAcc(Tail(s), Append(cur, Head(s)), out)

\* Python's str.split(" "): the pieces between single blanks ("" gives [""]).
split(s) == SplitAcc(s, <<>>, <<>>)

-----------------------------------------------------------------------------
(* IntInput                                                                *)

\* A bound that keeps the max passed although maxes are disabled.
get_max_value_KeepMax(max, signed) ==
    IF max = None THEN 2147483647 ELSE Min(Val(max), 2147483647)

get_max_value(max, signed) ==
    LET max_int == IF signed THEN 2147483647
                             ELSE 2147483647 + 2147483647 + 1
    IN  IF disable_maxes \/ max = None THEN max_int ELSE Min(Val(max), max_int)

\* IntInput.__init__
IntInput(max, min, default, signed) ==
    [signed |-> signed, max |-> get_max_value(max, signed),
     min |-> min, default |-> default]

\* A clamp that forgets the lower bound.
clamp_value_NoLower(self, value) == Min(value, self.max)

clamp_value(self, value) == Max(Min(value, self.max), self.min)

\* get_input with the default clamped like a typed value.
get_input_ClampDefault(self, user_input) ==
    IF user_input = <<>> /\ self.default # None
    THEN <<Some(clamp_value(self, Val(self.default))), user_input>>
    ELSE LET p == int(user_input) IN
         IF p = None THEN <<None, user_input>>
         ELSE <<Some(clamp_value(self, Val(p))), user_input>>

\* get_input that takes a line that is no integer for the lower bound.
get_input_NoValueError(self, user_input) ==
    IF user_input = <<>> /\ self.default # None
    THEN <<self.default, user_input>>
    ELSE LET p == int(user_input) IN
         IF p = None THEN <<Some(self.min), user_input>>
         ELSE <<Some(clamp_value(self, Val(p))), user_input>>

\* IntInput.get_input on the line the console returned: (int_val, user_input).
get_input(self, user_input) ==
    IF user_input = <<>> /\ self.default # None
    THEN <<self.default, user_input>>
    ELSE LET p == int(user_input) IN
         IF p = None THEN <<None, user_input>>
         ELSE <<Some(clamp_value(self, Val(p))), user_input>>

-----------------------------------------------------------------------------
(* YesNoInput and ChoiceInput                                              *)

\* locale key "yes_key": the one affirmative token.
yes_key == <<"y">>

\* YesNoInput(default).get_input_once on the line the console returned.
get_input_once(default, usr_input) ==
    IF usr_input = <<>> THEN default ELSE usr_input = yes_key

\* ChoiceInput.__init__; aliased records that items and strings are one list
\* object (edit_enigma passes names_list twice).
ChoiceInput(items, strings, single_choice, aliased) ==
    [items |-> items, strings |-> strings,
     is_single_choice |-> single_choice, aliased |-> aliased]

\* The loop of get_input_locale over the split input: the tokens int() accepts.
RECURSIVE int_vals_of(_)
int_vals_of(tokens) ==
    IF tokens = <<>> THEN <<>>
    ELSE LET p == int(Head(tokens)) IN
         IF p = None THEN int_vals_of(Tail(tokens))
         ELSE <<Val(p)>> \o int_vals_of(Tail(tokens))

\* list(range(a, b))
range(a, b) == [k \in 1..Max(b - a, 0) |-> a + k - 1]

\* ChoiceInput.get_input_locale on the line the console returned:
\* vals and all are the returned pair, self is the object afterwards (the
\* append to self.strings stays).
get_input_locale(self, line) ==
    IF Len(self.strings) = 0 THEN [vals |-> <<>>, all |-> FALSE, self |-> self]
    ELSE IF Len(self.strings) = 1
    THEN [vals |-> <<1>>, all |-> FALSE, self |-> self]
    ELSE
      LET strings == IF ~self.is_single_choice
                     THEN Append(self.strings, <<"all_at_once">>)
                     ELSE self.strings
          after == [self EXCEPT !.strings = strings,
                                !.items = IF self.aliased THEN strings ELSE @]
          int_vals == int_vals_of(split(line))
      IN  IF (\E k \in 1..Len(int_vals) : int_vals[k] = Len(strings))
             /\ ~self.is_single_choice
          THEN [vals |-> range(1, Len(strings)), all |-> TRUE, self |-> after]
          ELSE IF self.is_single_choice /\ Len(int_vals) > 1
          THEN [vals |-> <<int_vals[1]>>, all |-> FALSE, self |-> after]
          ELSE [vals |-> int_vals, all |-> FALSE, self |-> after]

\* ChoiceInput.multiple_choice: the zero-based choices.
multiple_choice(self, line) ==
    LET r == get_input_locale(self, line) IN
    [vals |-> [k \in 1..Len(r.vals) |-> r.vals[k] - 1], all |-> r.all,
     self |-> r.self]

-----------------------------------------------------------------------------
(* MultiEditor and SingleEditor                                            *)

RECURSIVE sum(_)
\* sum(self.ints)
sum(s) == IF s = <<>> THEN 0 ELSE Head(s) + sum(Tail(s))

\* The position a Python list of length n gives index i: negative indices
\* count from the end; 0 stands for IndexError.
PyIndex(n, i) ==
    IF i >= 0 /\ i < n THEN i + 1
    ELSE IF i < 0 /\ i >= 0 - n THEN n + i + 1
    ELSE 0

\* MultiEditor.__init__: max_values is None, <<"int", m>> or <<"list", ms>>.
MultiEditor(items, strings, ints, max_values, signed, cumulative_max) ==
    [items |-> items, strings |-> strings, ints |-> ints,
     max_values |-> IF max_values = None THEN [k \in 1..Len(ints) |-> None]
                    ELSE IF max_values[1] = "int"
                    THEN [k \in 1..Len(ints) |-> Some(max_values[2])]
                    ELSE max_values[2],
     signed |-> signed, cumulative_max |-> cumulative_max]

\* The max of one field as both editors resolve it before use.
field_max(self, idx) ==
    IF self.max_values[idx] = None THEN get_max_value(None, self.signed)
    ELSE Val(self.max_values[idx])

\* A shared bound that is the least of the selected maxes.
RECURSIVE max_max_value_Least(_, _, _)
max_max_value_Least(self, choices, acc) ==
    IF choices = <<>> THEN acc
    ELSE LET idx == PyIndex(Len(self.max_values), Head(choices)) IN
         IF idx = 0 THEN None
         ELSE max_max_value_Least(self, Tail(choices),
                  IF acc = Some(0) THEN Some(field_max(self, idx))
                  ELSE Some(Min(Val(acc), field_max(self, idx))))

RECURSIVE max_max_value(_, _, _)
\* The first loop of edit_all: max_max_value over the choices, from acc;
\* None stands for IndexError.
max_max_value(self, choices, acc) ==
    IF choices = <<>> THEN acc
    ELSE LET idx == PyIndex(Len(self.max_values), Head(choices)) IN
         IF idx = 0 THEN None
         ELSE max_max_value(self, Tail(choices),
                            Some(Max(Val(acc), field_max(self, idx))))

\* edit_all up to its prompt: the bound passed to IntInput (None: IndexError).
edit_all_bound(self, choices) ==
    LET m == max_max_value(self, choices, Some(0)) IN
    IF m = None THEN None
    ELSE IF self.cumulative_max THEN Some(Val(m) \div Len(choices)) ELSE m

\* An edit_all that stores the typed value without the per-field min().
RECURSIVE edit_all_apply_NoFieldClamp(_, _, _)
edit_all_apply_NoFieldClamp(ints, self, todo) ==
    IF todo = <<>> THEN ints
    ELSE LET idx == PyIndex(Len(ints), Head(todo)[1]) IN
         edit_all_apply_NoFieldClamp([ints EXCEPT ![idx] = Head(todo)[2]],
                                     self, Tail(todo))

RECURSIVE edit_all_apply(_, _, _)
\* The second loop of edit_all over todo = <<choice, usr_input>> pairs.
edit_all_apply(ints, self, todo) ==
    IF todo = <<>> THEN ints
    ELSE LET idx == PyIndex(Len(ints), Head(todo)[1])
             value == Min(Head(todo)[2],
                          get_max_value(self.max_values[idx], self.signed))
         IN  edit_all_apply([ints EXCEPT ![idx] = value], self, Tail(todo))

\* edit_all from its prompt on, for one line read: pc is "edit_all" when it
\* prompts again and "returned" when it returns self.ints.
edit_all_next(self, choices, bound, line) ==
    LET r == get_input(IntInput(bound, 0, None, TRUE), line) IN
    IF r[1] # None
    THEN [pc |-> "returned",
          ints |-> edit_all_apply(self.ints, self,
                      [k \in 1..Len(choices) |-> <<choices[k], Val(r[1])>>])]
    ELSE IF r[2] = <<"q">> THEN [pc |-> "returned", ints |-> self.ints]
    ELSE [pc |-> "edit_all", ints |-> self.ints]

\* An edit_one that forgets what the other fields already take of the budget.
edit_one_input_NoBudget(self, idx) ==
    IntInput(Some(field_max(self, idx)), 0, Some(self.ints[idx]), TRUE)

\* The IntInput edit_one builds for one choice.
edit_one_input(self, idx) ==
    LET max_value == IF self.cumulative_max
                     THEN field_max(self, idx) - (sum(self.ints) - self.ints[idx])
                     ELSE field_max(self, idx)
    IN  IntInput(Some(max_value), 0, Some(self.ints[idx]), TRUE)

\* An edit_one that returns from the batch when one field is quit.
edit_one_next_QuitAborts(self, choices, pos, line) ==
    LET idx == PyIndex(Len(self.max_values), choices[pos])
        r == get_input(edit_one_input(self, idx), line)
        last == pos = Len(choices)
    IN  IF r[1] # None
        THEN [pc |-> IF last THEN "returned" ELSE "edit_one", pos |-> pos + 1,
              ints |-> [self.ints EXCEPT ![idx] = Val(r[1])]]
        ELSE IF r[2] = <<"q">>
        THEN [pc |-> "returned", pos |-> pos, ints |-> self.ints]
        ELSE [pc |-> "edit_one", pos |-> pos, ints |-> self.ints]

\* edit_one at choice number pos, for one line read: the field is set and the
\* loop moves on, or the field is skipped (quit), or the prompt is repeated.
edit_one_next(self, choices, pos, line) ==
    LET idx == PyIndex(Len(self.max_values), choices[pos])
        r == get_input(edit_one_input(self, idx), line)
        last == pos = Len(choices)
    IN  IF r[1] # None
        THEN [pc |-> IF last THEN "returned" ELSE "edit_one", pos |-> pos + 1,
              ints |-> [self.ints EXCEPT ![idx] = Val(r[1])]]
        ELSE IF r[2] = <<"q">>
        THEN [pc |-> IF last THEN "returned" ELSE "edit_one", pos |-> pos + 1,
              ints |-> self.ints]
        ELSE [pc |-> "edit_one", pos |-> pos, ints |-> self.ints]

\* SingleEditor.__init__
SingleEditor(value, max_value, min_value, signed) ==
    [value |-> value, max_value |-> max_value, min_value |-> min_value,
     signed |-> signed]

\* SingleEditor.edit for one line read: it prompts again, or returns ret.
SingleEditor_edit_next(self, line) ==
    LET max_value == IF self.max_value = None
                     THEN get_max_value(None, self.signed)
                     ELSE Val(self.max_value)
        r == get_input(IntInput(Some(max_value), self.min_value,
                                Some(self.value), TRUE), line)
    IN  IF r[1] # None THEN [pc |-> "returned", ret |-> r[1]]
        ELSE IF r[2] = <<"q">> THEN [pc |-> "returned", ret |-> Some(self.value)]
        ELSE [pc |-> "prompting", ret |-> None]

-----------------------------------------------------------------------------
(* The binary cursor core.Data: one cell per primitive, its width in bytes *)
(* and the value the bytes hold                                            *)

\* A byte holds 0..255.
ByteMax == 255

write_int(value) == [w |-> 4, v |-> value]
write_byte(value) == [w |-> 1, v |-> value % (ByteMax + 1)]
write_bool(value) == [w |-> 1, v |-> IF value THEN 1 ELSE 0]
write_double(value) == [w |-> 8, v |-> value]

read_int(cell) == cell.v
read_byte(cell) == cell.v
read_bool(cell) == cell.v # 0
read_double(cell) == cell.v

-----------------------------------------------------------------------------
(* Stage and Enigma                                                        *)

\* Stage.__init__
Stage(level, stage_id, decoding_satus, start_time) ==
    [level |-> level, stage_id |-> stage_id,
     decoding_satus |-> decoding_satus, start_time |-> start_time]

\* Primitives per Stage and in the Enigma header (count byte included).
StageCells == 4
HeaderCells == 6

\* Stage.read at position pos of the buffer.
Stage_read(buf, pos) ==
    Stage(read_int(buf[pos]), read_int(buf[pos + 1]),
          read_byte(buf[pos + 2]), read_double(buf[pos + 3]))

\* A Stage.write that emits the status byte before the stage id.
Stage_write_Swapped(self) ==
    << write_int(self.level), write_byte(self.decoding_satus),
       write_int(self.stage_id), write_double(self.start_time) >>

\* Stage.write: the primitives it appends.
Stage_write(self) ==
    << write_int(self.level), write_int(self.stage_id),
       write_byte(self.decoding_satus), write_double(self.start_time) >>

\* Enigma.__init__
Enigma(energy_since_1, energy_since_2, enigma_level, unknown_1, unknown_2, stages) ==
    [energy_since_1 |-> energy_since_1, energy_since_2 |-> energy_since_2,
     enigma_level |-> enigma_level, unknown_1 |-> unknown_1,
     unknown_2 |-> unknown_2, stages |-> stages]

\* Enigma.init
Enigma_init == Enigma(0, 0, 0, 0, FALSE, <<>>)

\* Enigma.read from the start of the buffer.
Enigma_read(buf) ==
    LET count == read_byte(buf[6]) IN
    Enigma(read_int(buf[1]), read_int(buf[2]), read_byte(buf[3]),
           read_byte(buf[4]), read_bool(buf[5]),
           [k \in 1..count |-> Stage_read(buf, HeaderCells + StageCells * (k - 1) + 1)])

\* Enigma.write: the primitives it appends, header first, then every stage.
Enigma_write(self) ==
    LET header == << write_int(self.energy_since_1),
                     write_int(self.energy_since_2),
                     write_byte(self.enigma_level),
                     write_byte(self.unknown_1),
                     write_bool(self.unknown_2),
                     write_byte(Len(self.stages)) >>
    IN  [i \in 1..(HeaderCells + StageCells * Len(self.stages)) |->
            IF i <= HeaderCells THEN header[i]
            ELSE Stage_write(self.stages[((i - HeaderCells - 1) \div StageCells) + 1])
                            [((i - HeaderCells - 1) % StageCells) + 1]]

base_level == 25000

RECURSIVE sorted(_)
\* sorted(keys): the ids in increasing order.
sorted(S) ==
    IF S = {} THEN <<>>
    ELSE LET m == CHOOSE x \in S : \A y \in S : x <= y
         IN  <<m>> \o sorted(S \ {m})

\* The label edit_enigma shows for id: its name, or the "unknown" label.
display_name(names, id) ==
    IF names[id] = None THEN <<"unknown_enigma_name", id>> ELSE names[id]

\* The list edit_enigma offers: one label per id of the table, in id order.
names_list(names) ==
    LET keys == sorted(DOMAIN names) IN
    [k \in 1..Len(keys) |-> display_name(names, keys[k])]

\* edit_enigma where the stages selected are put before the stages kept.
edit_enigma_Prepend(self, names, wipe_line, choice_line, now) ==
    IF \E k \in 1..Len(self.stages) :
          (self.stages[k].stage_id - base_level) \notin DOMAIN names
    THEN [raised |-> TRUE, self |-> self]
    ELSE
      LET wipe == self.stages # <<>> /\ get_input_once(FALSE, wipe_line)
          kept == IF wipe THEN <<>> ELSE self.stages
          nl == names_list(names)
          ids == multiple_choice(ChoiceInput(nl, nl, FALSE, TRUE), choice_line).vals
      IN  [raised |-> FALSE,
           self |-> [self EXCEPT !.stages =
                       [k \in 1..Len(ids) |-> Stage(3, ids[k] + base_level, 2, now)]
                       \o kept]]

\* Enigma.edit_enigma with the name table the session built, the answers to
\* the wipe question and to the menu, and the clock: raised is TRUE when the
\* listing of the current stages raises KeyError, self is the record afterwards.
edit_enigma(self, names, wipe_line, choice_line, now) ==
    IF \E k \in 1..Len(self.stages) :
          (self.stages[k].stage_id - base_level) \notin DOMAIN names
    THEN [raised |-> TRUE, self |-> self]
    ELSE
      LET wipe == self.stages # <<>> /\ get_input_once(FALSE, wipe_line)
          kept == IF wipe THEN <<>> ELSE self.stages
          nl == names_list(names)
          ids == multiple_choice(ChoiceInput(nl, nl, FALSE, TRUE), choice_line).vals
      IN  [raised |-> FALSE,
           self |-> [self EXCEPT !.stages =
                       kept \o [k \in 1..Len(ids) |->
                                  Stage(3, ids[k] + base_level, 2, now)]]]

-----------------------------------------------------------------------------
(* GameDataGetter                                                          *)

\* core.CountryCodeType
EN == "en"
JP == "jp"
KR == "kr"
TW == "tw"

\* core.CountryCode.get_langs(): the locales that have a resLocal pack of
\* their own.
get_langs == {"fr", "de"}

\* The shared resource pack; a pack name is a sequence of its pieces, so
\* that f"{packname}_{self.lang}" is a concatenation.
resLocal == <<"resLocal">>

RECURSIVE split_lines(_, _, _)
\* text.split("\n") with cur the piece being read and out the pieces read.
split_lines(text, cur, out) ==
    IF text = <<>> THEN Append(out, cur)
    ELSE IF Head(text) = "\n" THEN split_lines(Tail(text), <<>>, Append(out, cur))
    ELSE split_lines(Tail(text), Append(cur, Head(text)), out)

\* get_versions: the body of latest.txt split at its newlines.
get_versions(text) == split_lines(text, <<>>, <<>>)

\* A resolution that gives every region the first entry.
get_latest_version_First(versions, cc) ==
    IF Len(versions) >= 1 THEN Some(versions[1]) ELSE None

\* get_latest_version
get_latest_version(versions, cc) ==
    LET length == Len(versions) IN
    IF cc = EN /\ length >= 1 THEN Some(versions[1])
    ELSE IF cc = JP /\ length >= 2 THEN Some(versions[2])
    ELSE IF cc = KR /\ length >= 3 THEN Some(versions[3])
    ELSE IF cc = TW /\ length >= 4 THEN Some(versions[4])
    ELSE None

\* GameDataGetter.__init__, given the body of latest.txt.
GameDataGetter(cc, lang, text) ==
    [cc |-> cc, lang |-> lang, all_versions |-> get_versions(text),
     latest_version |-> get_latest_version(get_versions(text), cc)]

\* A get_packname that suffixes every pack that starts with resLocal.
get_packname_Again(self, packname) ==
    IF packname = <<>> \/ Head(packname) # Head(resLocal) THEN packname
    ELSE IF self.cc # EN THEN packname
    ELSE IF self.lang \in get_langs THEN packname \o <<"_", self.lang>>
    ELSE packname

\* get_packname
get_packname(self, packname) ==
    IF packname # resLocal THEN packname
    ELSE IF self.cc # EN THEN packname
    ELSE IF self.lang \in get_langs THEN packname \o <<"_", self.lang>>
    ELSE packname

\* get_file_path: game_data / version / pack / file, or None.
get_file_path(self, pack_name, file_name) ==
    LET version == self.latest_version IN
    IF version = None THEN None
    ELSE Some(<<"game_data", Val(version), get_packname(self, pack_name), file_name>>)

\* The URL get_file requests, below the repository root.
get_file_url(self, pack_name, file_name) ==
    <<"repo", Val(self.latest_version), get_packname(self, pack_name), file_name>>

\* core.Path.exists, core.Path.read and core.Data.to_file on local storage.
exists(store, path) == \E e \in store : e[1] = path
read(store, path) == (CHOOSE e \in store : e[1] = path)[2]
to_file(store, path, bytes) ==
    { e \in store : e[1] # path } \cup { <<path, bytes>> }

\* The path is_downloaded(pack_name, file_name) looks at.
is_downloaded_path(self, pack_name, file_name) ==
    get_file_path(self, get_packname(self, pack_name), file_name)

\* is_downloaded
is_downloaded(self, store, pack_name, file_name) ==
    LET path == is_downloaded_path(self, pack_name, file_name) IN
    IF path = None THEN FALSE ELSE exists(store, Val(path))

\* A download that never looks at the cache.
download_enter_NoCache(self, store, pack_name, file_name, retries) ==
    LET r == retries - 1
        pack == get_packname(self, pack_name)
    IN  IF r = 0 \/ self.latest_version = None
        THEN [pc |-> "returned", ret |-> None, pack_name |-> pack, retries |-> r]
        ELSE [pc |-> "save_file", ret |-> None, pack_name |-> pack, retries |-> r]

\* download from its entry to its first return or to the call of save_file:
\* the cached bytes, None when the budget is spent or no version is known
\* (path.read() of a file that is not there raises).
download_enter(self, store, pack_name, file_name, retries) ==
    LET r == retries - 1
        pack == get_packname(self, pack_name)
        path == get_file_path(self, pack, file_name)
    IN  IF is_downloaded(self, store, pack, file_name)
        THEN IF path = None
             THEN [pc |-> "returned", ret |-> None, pack_name |-> pack, retries |-> r]
             ELSE IF ~exists(store, Val(path))
             THEN [pc |-> "raised", ret |-> None, pack_name |-> pack, retries |-> r]
             ELSE [pc |-> "returned", ret |-> Some(read(store, Val(path))),
                   pack_name |-> pack, retries |-> r]
        ELSE IF r = 0 \/ self.latest_version = None
        THEN [pc |-> "returned", ret |-> None, pack_name |-> pack, retries |-> r]
        ELSE [pc |-> "save_file", ret |-> None, pack_name |-> pack, retries |-> r]

\* save_file as called by download: the pack name it passes on to get_file
\* and to get_file_path.
save_file_pack(self, pack_name) == get_packname(self, pack_name)

\* The URL and the cache path one save_file(pack_name, file_name) uses.
save_file_url(self, pack_name, file_name) ==
    get_file_url(self, save_file_pack(self, pack_name), file_name)
save_file_path(self, pack_name, file_name) ==
    get_file_path(self, save_file_pack(self, pack_name), file_name)

\* RequestHandler.get: requests.get answers with a response, or raises when
\* the timeout passes.
Response(status_code, content) ==
    [kind |-> "response", status_code |-> status_code, content |-> content]
Timeout == [kind |-> "timeout", status_code |-> 0, content |-> ""]

\* A save_file that writes the body of every answer.
save_file_next_AnyStatus(self, store, pack_name, file_name, retries, resp) ==
    LET path == save_file_path(self, pack_name, file_name) IN
    IF resp.kind = "timeout" \/ path = None
    THEN [pc |-> "raised", ret |-> None, pack_name |-> pack_name,
          retries |-> retries, store |-> store, wrote |-> {}]
    ELSE [pc |-> "returned", ret |-> Some(resp.content), pack_name |-> pack_name,
          retries |-> retries, store |-> to_file(store, Val(path), resp.content),
          wrote |-> {Val(path)}]

\* save_file as called by download, from the answer to its GET on: a timeout
\* raises, a status other than 200 makes download call itself with the
\* budget it has left, and a 200 is written to the cache and returned.
save_file_next(self, store, pack_name, file_name, retries, resp) ==
    LET path == save_file_path(self, pack_name, file_name)
        again == download_enter(self, store, pack_name, file_name, retries)
    IN  IF resp.kind = "timeout"
        THEN [pc |-> "raised", ret |-> None, pack_name |-> pack_name,
              retries |-> retries, store |-> store, wrote |-> {}]
        ELSE IF resp.status_code # 200
        THEN [pc |-> again.pc, ret |-> again.ret, pack_name |-> again.pack_name,
              retries |-> again.retries, store |-> store, wrote |-> {}]
        ELSE IF path = None
        THEN [pc |-> again.pc, ret |-> again.ret, pack_name |-> again.pack_name,
              retries |-> again.retries, store |-> store, wrote |-> {}]
        ELSE [pc |-> "returned", ret |-> Some(resp.content), pack_name |-> pack_name,
              retries |-> retries, store |-> to_file(store, Val(path), resp.content),
              wrote |-> {Val(path)}]

\* get_file from the answer to its GET on.
get_file_next(resp) ==
    IF resp.kind = "timeout" THEN [pc |-> "raised", ret |-> None]
    ELSE IF resp.status_code # 200 THEN [pc |-> "returned", ret |-> None]
    ELSE [pc |-> "returned", ret |-> Some(resp.content)]

-----------------------------------------------------------------------------
(* Console lines offered to an integer prompt                              *)

IntLines ==
    { <<>>, <<"q">>, <<"a", "b", "c">>, <<" ">>, <<"-", "5">>, <<"0">>,
      <<"1">>, <<"5">>, <<"1", "0">>, <<"1", "1">>, <<"3", "0">>,
      <<"9", "9", "9">>, <<" ", "7">> }

\* How many prompts one get_input_while may issue in the model.
MaxPrompts == 3

-----------------------------------------------------------------------------
(* Each specification below runs one component; the variables of the       *)
(* others rest at these values                                             *)

IdleInt ==
    /\ ii = [signed |-> TRUE, max |-> 0, min |-> 0, default |-> None]
    /\ iiPc = "idle"
    /\ iiLine = NoLine
    /\ iiVal = None
    /\ iiRet = None
    /\ iiPrompts = 0

IdleCodec ==
    /\ enigma = Enigma_init
    /\ enigma_names = <<>>
    /\ data = <<>>
    /\ encoded = Enigma_init
    /\ redata = <<>>
    /\ cpc = "idle"
    /\ edits = 0
    /\ editErr = FALSE
    /\ wipe_in = NoLine
    /\ menu_in = NoLine

IdleSingle ==
    /\ se = SingleEditor(0, None, 0, TRUE)
    /\ sePc = "idle"
    /\ seLine = NoLine
    /\ seRet = None

IdleMulti ==
    /\ me = [items |-> <<>>, strings |-> <<>>, ints |-> <<>>, max_values |-> <<>>,
             signed |-> TRUE, cumulative_max |-> FALSE]
    /\ mePc = "idle"
    /\ meChoices = <<>>
    /\ mePos = 0
    /\ meBound = None
    /\ mePrior = <<>>
    /\ meLine = NoLine
    /\ meAll = FALSE
    /\ meCalls = 0

IdleChoice ==
    /\ ci = ChoiceInput(<<>>, <<>>, FALSE, FALSE)
    /\ ciN = 0
    /\ ciLine = NoLine
    /\ ciRet = [vals |-> <<>>, all |-> FALSE]
    /\ ciCalls = 0

\* No call of the fetcher is running.
IdleDl ==
    [op |-> "idle", arg_pack |-> <<>>, pack_name |-> <<>>, file_name |-> "",
     budget |-> 0, retries |-> 0, pc |-> "idle", ret |-> None, flag |-> FALSE,
     gets |-> 0, urls |-> {}, wrote |-> {}, checked |-> {},
     status_code |-> 0, content |-> ""]
IdleBatch ==
    [pc |-> "idle", arg_pack |-> <<>>, pack_name |-> <<>>, file_names |-> <<>>,
     data_list |-> <<>>, calls |-> 0]

IdleFetch ==
    /\ gdg = GameDataGetter(EN, "en", <<>>)
    /\ cache = {}
    /\ firstSaved = {}
    /\ gets = 0
    /\ dl = IdleDl
    /\ batch = IdleBatch
    /\ tasks = <<>>
    /\ order = <<>>

\* No EnigmaNames object is under construction.
IdleSession ==
    [pc |-> "idle", loaded |-> <<>>, pending |-> {}, fetched |-> {},
     writer |-> "none", running |-> 0, calls |-> 0]

IdleNames ==
    /\ names_file = <<>>
    /\ ns = IdleSession

-----------------------------------------------------------------------------
(* The codec process: edit_enigma, then save (write), load (read), save    *)

\* How many edit_enigma calls one behaviour makes in the model.
MaxEdits == 2

\* time.time() at the moment of an edit.
Times == {1700000000}

\* Answers to the wipe question and to the stage menu.
WipeLines == { <<>>, <<"y">>, <<"n">> }
MenuLines ==
    { <<>>, <<"1">>, <<"2">>, <<"1", " ", "2">>, <<"2", " ", "1">>, <<"3">>,
      <<"0">>, <<"a", "b", "c">> }

\* Name tables a session can leave behind: empty (the fetch of the stage list
\* failed), one name, two names, and ids 0 and 2 with an unnamed id.
NameTables ==
    { <<>>,
      [i \in {0} |-> <<"A">>],
      [i \in {0, 1} |-> IF i = 0 THEN <<"A">> ELSE <<"B">>],
      [i \in {0, 2} |-> IF i = 0 THEN <<"A">> ELSE None] }

\* Stage lists of a record decoded from a save: n stages, ids alternating.
SeedStages(n) == [k \in 1..n |-> Stage(3, base_level + (k % 2), 2, 1600000000 + k)]

\* Records the program starts from: Enigma.init(), or Enigma.read of a save
\* whose count byte is 1, 254 or 255.
SeedEnigmas ==
    { Enigma_init } \cup
    { Enigma_read(Enigma_write(Enigma(7, 0 - 9, 4, 5, TRUE, SeedStages(n)))) :
        n \in {0, 1, ByteMax - 1, ByteMax} }

InitCodec ==
    /\ disable_maxes = FALSE
    /\ IdleInt /\ IdleSingle /\ IdleMulti /\ IdleChoice /\ IdleFetch /\ IdleNames
    /\ enigma \in SeedEnigmas
    /\ enigma_names \in NameTables
    /\ data = <<>>
    /\ encoded = Enigma_init
    /\ redata = <<>>
    /\ cpc = "edit"
    /\ edits = 0
    /\ editErr = FALSE
    /\ wipe_in = NoLine
    /\ menu_in = NoLine

\* edit_enigma(save_file): save_file.enigma.edit_enigma(save_file)
EditEnigma(wipe_line, choice_line, now) ==
    /\ cpc = "edit"
    /\ edits < MaxEdits
    /\ LET r == edit_enigma(enigma, enigma_names, wipe_line, choice_line, now) IN
       /\ enigma' = r.self
       /\ editErr' = r.raised
       /\ wipe_in' = IF r.raised \/ enigma.stages = <<>> THEN NoLine ELSE wipe_line
       /\ menu_in' = IF r.raised \/ Len(names_list(enigma_names)) < 2
                     THEN NoLine ELSE choice_line
    /\ edits' = edits + 1
    /\ UNCHANGED <<disable_maxes, namesVars, fetchVars, intVars, singleVars, multiVars, choiceVars, enigma_names, data, encoded, redata, cpc>>

\* The save is written: Enigma.write(data).
WriteEnigma ==
    /\ cpc = "edit"
    /\ data' = Enigma_write(enigma)
    /\ encoded' = enigma
    /\ cpc' = "written"
    /\ UNCHANGED <<disable_maxes, namesVars, fetchVars, intVars, singleVars, multiVars, choiceVars, enigma, enigma_names, redata, edits, editErr, wipe_in, menu_in>>

\* The save is loaded again: Enigma.read(data).
ReadEnigma ==
    /\ cpc = "written"
    /\ enigma' = Enigma_read(data)
    /\ cpc' = "read"
    /\ UNCHANGED <<disable_maxes, namesVars, fetchVars, intVars, singleVars, multiVars, choiceVars, enigma_names, data, encoded, redata, edits, editErr, wipe_in, menu_in>>

\* The loaded record is written back.
RewriteEnigma ==
    /\ cpc = "read"
    /\ redata' = Enigma_write(enigma)
    /\ cpc' = "rewritten"
    /\ UNCHANGED <<disable_maxes, namesVars, fetchVars, intVars, singleVars, multiVars, choiceVars, enigma, enigma_names, data, encoded, edits, editErr, wipe_in, menu_in>>

\* The user goes on editing the loaded record.
ResumeEditing ==
    /\ cpc = "rewritten"
    /\ edits < MaxEdits
    /\ cpc' = "edit"
    /\ data' = <<>>
    /\ redata' = <<>>
    /\ encoded' = Enigma_init
    /\ UNCHANGED <<disable_maxes, namesVars, fetchVars, intVars, singleVars, multiVars, choiceVars, enigma, enigma_names, edits, editErr, wipe_in, menu_in>>

NextCodec ==
    \/ \E wl \in WipeLines, cl \in MenuLines, now \in Times : EditEnigma(wl, cl, now)
    \/ WriteEnigma
    \/ ReadEnigma
    \/ RewriteEnigma
    \/ ResumeEditing

SpecCodec == InitCodec /\ [][NextCodec]_vars

-----------------------------------------------------------------------------
(* Claims about the codec                                                  *)

\* Every field of the record fits its wire width.
InRange(e) ==
    /\ Len(e.stages) <= ByteMax
    /\ e.enigma_level \in 0..ByteMax /\ e.unknown_1 \in 0..ByteMax
    /\ \A k \in 1..Len(e.stages) : e.stages[k].decoding_satus \in 0..ByteMax

\* C1: for every Stage and Enigma whose fields are in range and whose stage
\* list has at most 255 entries, read of the written primitives returns the
\* original record, field by field, stages in the same number and order.
C1_RoundTrip ==
    (cpc = "read" /\ InRange(encoded))
    => /\ enigma = encoded
       /\ Len(enigma.stages) = Len(encoded.stages)
       /\ \A k \in 1..Len(encoded.stages) :
             Stage_read(Stage_write(encoded.stages[k]), 1) = encoded.stages[k]

\* C1 case: a record with 255 stages, the last of them appended by an edit,
\* was written and read back.
C1_Witness ==
    /\ cpc = "read"
    /\ Len(encoded.stages) = ByteMax
    /\ edits > 0
    /\ encoded.stages[ByteMax].stage_id # encoded.stages[ByteMax - 1].stage_id
    /\ enigma = encoded

\* C2: for every buffer Enigma.write produced, read followed by write emits
\* exactly the same primitives in the same order and width, the count byte
\* included.
C2_ReEncode ==
    cpc = "rewritten" => (redata = data /\ redata[HeaderCells] = data[HeaderCells])

\* C3: an Enigma is never encoded with more than 255 stages (a 256th stage is
\* rejected by edit_enigma), so the count byte written equals the number of
\* stage records written after it.
C3_Capacity ==
    /\ Len(enigma.stages) <= ByteMax
    /\ cpc = "written" =>
          read_byte(data[HeaderCells]) * StageCells = Len(data) - HeaderCells

-----------------------------------------------------------------------------
(* The editors as processes                                                *)

\* How many times MultiEditor.edit is called on one object in the model.
MaxMultiEdits == 2

\* How many menus one ChoiceInput shows in the model.
MaxMenus == 3

\* Lines typed at a value prompt and at the field menu.
ValueLines ==
    { <<>>, <<"q">>, <<"a", "b", "c">>, <<"-", "5">>, <<"3", "0">>,
      <<"6", "0">>, <<"9", "9", "9">> }
FieldMenuLines ==
    { <<>>, <<"1">>, <<"2">>, <<"1", " ", "2">>, <<"2", " ", "1">>, <<"3">>,
      <<"4">>, <<"0">>, <<"5">> }

\* n labels "s1".."sn".
Labels(n) == [k \in 1..n |-> <<"s", k>>]

\* The MultiEditor objects the model starts from: the cumulative pair with
\* maxes 100 and 50, a cumulative pair sharing the budget 50, three fields of
\* which one holds a value above its max, two fields without a max, one
\* field, no field.
MultiEditors ==
    { MultiEditor(Labels(2), Labels(2), <<0, 0>>,
                  <<"list", <<Some(100), Some(50)>> >>, TRUE, TRUE),
      MultiEditor(Labels(2), Labels(2), <<10, 20>>, <<"int", 50>>, TRUE, TRUE),
      MultiEditor(Labels(3), Labels(3), <<10, 500, 3>>,
                  <<"list", <<Some(100), Some(100), Some(20)>> >>, TRUE, FALSE),
      MultiEditor(Labels(2), Labels(2), <<5, 5>>, None, TRUE, FALSE),
      MultiEditor(Labels(1), Labels(1), <<7>>, <<"int", 10>>, TRUE, FALSE),
      MultiEditor(<<>>, <<>>, <<>>, None, TRUE, FALSE) }

\* The SingleEditor objects the model starts from.
SingleEditors ==
    { SingleEditor(v, mx, mn, TRUE) :
        v \in {1, 5, 500}, mx \in {None, Some(10), Some(100)}, mn \in {0, 1} }

InitSingle ==
    /\ se \in SingleEditors
    /\ sePc = "prompting"
    /\ seLine = NoLine
    /\ seRet = None

InitMulti ==
    /\ me \in MultiEditors
    /\ mePc = "ready"
    /\ meChoices = <<>>
    /\ mePos = 0
    /\ meBound = None
    /\ mePrior = me.ints
    /\ meLine = NoLine
    /\ meAll = FALSE
    /\ meCalls = 0

InitEdit ==
    /\ disable_maxes \in BOOLEAN
    /\ IdleInt /\ IdleCodec /\ IdleChoice /\ IdleFetch /\ IdleNames
    /\ \/ InitSingle /\ IdleMulti
       \/ IdleSingle /\ InitMulti

\* SingleEditor.edit: one turn of its prompt loop.
SingleEditor_edit(line) ==
    /\ sePc = "prompting"
    /\ LET r == SingleEditor_edit_next(se, line) IN
       /\ sePc' = r.pc
       /\ seRet' = r.ret
    /\ seLine' = line
    /\ UNCHANGED <<disable_maxes, namesVars, fetchVars, intVars, codecVars, multiVars, choiceVars, se>>

\* MultiEditor.edit up to the first value prompt: the menu is shown, the
\* answer split into choices, and edit_all or edit_one entered.
MultiEditor_edit(line) ==
    /\ mePc = "ready"
    /\ meCalls < MaxMultiEdits
    /\ LET r == multiple_choice(ChoiceInput(me.items, me.strings, FALSE, FALSE), line)
           bound == edit_all_bound(me, r.vals)
       IN  /\ me' = [me EXCEPT !.strings = r.self.strings]
           /\ meChoices' = r.vals
           /\ meAll' = r.all
           /\ meBound' = IF r.all THEN bound ELSE None
           /\ mePc' = IF r.all THEN (IF bound = None THEN "raised" ELSE "edit_all")
                      ELSE IF r.vals = <<>> THEN "returned"
                      ELSE "edit_one"
    /\ mePos' = 1
    /\ mePrior' = me.ints
    /\ meLine' = NoLine
    /\ meCalls' = meCalls + 1
    /\ UNCHANGED <<disable_maxes, namesVars, fetchVars, intVars, codecVars, singleVars, choiceVars>>

\* edit_all: one turn of its prompt loop.
MultiEditor_edit_all(line) ==
    /\ mePc = "edit_all"
    /\ LET r == edit_all_next(me, meChoices, meBound, line) IN
       /\ mePc' = r.pc
       /\ me' = [me EXCEPT !.ints = r.ints]
    /\ meLine' = line
    /\ UNCHANGED <<disable_maxes, namesVars, fetchVars, intVars, codecVars, singleVars, choiceVars,
                   meChoices, mePos, meBound, mePrior, meAll, meCalls>>

\* edit_one: one turn of the prompt loop of the current choice.
MultiEditor_edit_one(line) ==
    /\ mePc = "edit_one"
    /\ PyIndex(Len(me.max_values), meChoices[mePos]) # 0
    /\ LET r == edit_one_next(me, meChoices, mePos, line) IN
       /\ mePc' = r.pc
       /\ mePos' = r.pos
       /\ me' = [me EXCEPT !.ints = r.ints]
    /\ meLine' = line
    /\ UNCHANGED <<disable_maxes, namesVars, fetchVars, intVars, codecVars, singleVars, choiceVars,
                   meChoices, meBound, mePrior, meAll, meCalls>>

\* edit_one reaches a choice that is no index of max_values: IndexError.
MultiEditor_edit_one_IndexError ==
    /\ mePc = "edit_one"
    /\ PyIndex(Len(me.max_values), meChoices[mePos]) = 0
    /\ mePc' = "raised"
    /\ meLine' = NoLine
    /\ UNCHANGED <<disable_maxes, namesVars, fetchVars, intVars, codecVars, singleVars, choiceVars,
                   me, meChoices, mePos, meBound, mePrior, meAll, meCalls>>

\* edit returned self.ints; the caller may call edit on the object again.
MultiEditor_returned ==
    /\ mePc = "returned"
    /\ meCalls < MaxMultiEdits
    /\ mePc' = "ready"
    /\ meLine' = NoLine
    /\ UNCHANGED <<disable_maxes, namesVars, fetchVars, intVars, codecVars, singleVars, choiceVars,
                   me, meChoices, mePos, meBound, mePrior, meAll, meCalls>>

NextEdit ==
    \/ \E line \in ValueLines : SingleEditor_edit(line)
    \/ \E line \in FieldMenuLines : MultiEditor_edit(line)
    \/ \E line \in ValueLines : MultiEditor_edit_all(line)
    \/ \E line \in ValueLines : MultiEditor_edit_one(line)
    \/ MultiEditor_edit_one_IndexError
    \/ MultiEditor_returned

SpecEdit == InitEdit /\ [][NextEdit]_vars

\* The ChoiceInput objects the model starts from.
ChoiceInputs ==
    { ChoiceInput(Labels(n), Labels(n), sc, al) :
        n \in 0..3, sc \in BOOLEAN, al \in BOOLEAN }

InitChoice ==
    /\ disable_maxes = FALSE
    /\ IdleInt /\ IdleCodec /\ IdleSingle /\ IdleMulti /\ IdleFetch /\ IdleNames
    /\ ci \in ChoiceInputs
    /\ ciN = Len(ci.items)
    /\ ciLine = NoLine
    /\ ciRet = [vals |-> <<>>, all |-> FALSE]
    /\ ciCalls = 0

\* ChoiceInput.multiple_choice, called on the object once more.
ChoiceInput_multiple_choice(line) ==
    /\ ciCalls < MaxMenus
    /\ LET r == multiple_choice(ci, line) IN
       /\ ci' = r.self
       /\ ciRet' = [vals |-> r.vals, all |-> r.all]
    /\ ciN' = Len(ci.items)
    /\ ciLine' = line
    /\ ciCalls' = ciCalls + 1
    /\ UNCHANGED <<disable_maxes, namesVars, fetchVars, intVars, codecVars, singleVars, multiVars>>

NextChoice == \E line \in FieldMenuLines : ChoiceInput_multiple_choice(line)

SpecChoice == InitChoice /\ [][NextChoice]_vars

-----------------------------------------------------------------------------
(* Claims about the editors                                                *)

\* The max a field was given, the largest representable value when None.
NominalMax(max, signed) ==
    IF max = None THEN (IF signed THEN 2147483647 ELSE 2147483647 + 2147483647 + 1)
    ELSE Val(max)

\* The largest element of a non-empty set of integers.
Largest(S) == CHOOSE m \in S : \A x \in S : x <= m
Least(S) == CHOOSE m \in S : \A x \in S : m <= x

\* The maxes of the fields the running edit_all selected.
SelectedMaxes ==
    { field_max(me, PyIndex(Len(me.max_values), meChoices[k])) :
        k \in 1..Len(meChoices) }

\* The budget of a cumulative group: the max its fields share (the largest
\* of them when they differ).
GroupMax(self) == Largest({ field_max(self, k) : k \in 1..Len(self.ints) })

C6_Original ==
    (mePc = "returned" /\ me.cumulative_max /\ sum(mePrior) <= GroupMax(me))
    => sum(me.ints) <= GroupMax(me)

\* C6 as amended: the same with disabled-maxes mode off and non-negative
\* starting values.
C6_Budget ==
    (mePc = "returned" /\ me.cumulative_max /\ ~disable_maxes
        /\ (\A i \in 1..Len(mePrior) : mePrior[i] >= 0)
        /\ sum(mePrior) <= GroupMax(me))
    => sum(me.ints) <= GroupMax(me)

\* C6 case: edit_one raised a field of a cumulative pair until the budget was
\* used up exactly.
C6_Witness ==
    /\ mePc = "returned" /\ me.cumulative_max /\ ~disable_maxes /\ ~meAll
    /\ sum(mePrior) < GroupMax(me)
    /\ sum(me.ints) = GroupMax(me)

\* The pair of the example: maxes 100 and 50 under cumulative_max, both
\* selected at once, 30 typed.
C7_Example ==
    /\ me.max_values = <<Some(100), Some(50)>> /\ me.cumulative_max
    /\ ~disable_maxes
    /\ mePc = "returned" /\ meAll /\ meLine = <<"3", "0">>

\* C7 as stated: the shared bound of edit_all is the minimum of the selected
\* fields' maxes, divided by their number under cumulative_max: 25 for the
\* example, where typing 30 leaves both fields at 25.
C7_Original ==
    /\ mePc = "edit_all" =>
          meBound = Some(IF me.cumulative_max
                         THEN Least(SelectedMaxes) \div Len(meChoices)
                         ELSE Least(SelectedMaxes))
    /\ C7_Example => me.ints = <<25, 25>>

\* C7 as amended: the shared bound of edit_all is the maximum of the selected
\* fields' maxes, divided by their number under cumulative_max: 50 for the
\* example, where typing 30 leaves both fields at 30.
C7_SharedBound ==
    /\ mePc = "edit_all" =>
          meBound = Some(IF me.cumulative_max
                         THEN Largest(SelectedMaxes) \div Len(meChoices)
                         ELSE Largest(SelectedMaxes))
    /\ C7_Example => (meBound = Some(50) /\ me.ints = <<30, 30>>)

\* C7 case: the example ran to its end.
C7_Witness == C7_Example /\ me.ints = <<30, 30>> /\ mePrior = <<0, 0>>

\* The integers among the blank-separated pieces of a line.
Typed(line) == LET v == int_vals_of(split(line)) IN { v[k] : k \in 1..Len(v) }

\* C8: for a ChoiceInput with n >= 2 items, not single-choice, an answer that
\* holds n + 1 makes multiple_choice return 0..n-1 and all_at_once = TRUE; any
\* other answer returns all_at_once = FALSE.
C8_SelectAll ==
    (ciLine # NoLine /\ ~ci.is_single_choice /\ ciN >= 2)
    => IF (ciN + 1) \in Typed(ciLine)
       THEN ciRet = [vals |-> [k \in 1..ciN |-> k - 1], all |-> TRUE]
       ELSE ciRet.all = FALSE

\* How many entries of a menu are the select-all entry.
SelectAllEntries(strings) ==
    Cardinality({ k \in 1..Len(strings) : strings[k] = <<"all_at_once">> })

\* C25: however often one ChoiceInput prompts, its menu holds at most one
\* select-all entry, and the lists the caller passed (items and labels) are as
\* long after a prompt as before it, so the sentinel stays the number of
\* original items plus one.
C25_OneSelectAll ==
    /\ [](SelectAllEntries(ci.strings) <= 1)
    /\ [][ ciCalls' = ciCalls + 1
           => /\ Len(ci'.strings) = Len(ci.strings)
              /\ Len(ci'.items) = Len(ci.items) ]_vars

\* The positions of self.ints the running edit_one was asked to edit.
Chosen ==
    { PyIndex(Len(me.ints), meChoices[k]) : k \in 1..Len(meChoices) }

\* C10: in edit_one, quit at one chosen field keeps that field and moves on to
\* the next chosen field (the batch goes on); fields not chosen keep their
\* values; in edit_all, quit at the shared prompt leaves every field unchanged.
C10_QuitKeepsGoing ==
    /\ [][ (mePc = "edit_one" /\ meLine' = <<"q">>)
           => /\ me'.ints = me.ints
              /\ mePos' = mePos + 1
              /\ mePc' = IF mePos < Len(meChoices) THEN "edit_one" ELSE "returned"
         ]_vars
    /\ []( (mePc \in {"edit_one", "returned"} /\ ~meAll)
           => \A i \in 1..Len(me.ints) : i \notin Chosen => me.ints[i] = mePrior[i] )
    /\ [][ (mePc = "edit_all" /\ meLine' = <<"q">>)
           => (me'.ints = me.ints /\ mePc' = "returned") ]_vars

\* C10 case: the first of two chosen fields was quit and the editor is asking
\* for the second.
C10_Witness ==
    /\ mePc = "edit_one" /\ mePos = 2 /\ Len(meChoices) = 2
    /\ meLine = <<"q">>
    /\ me.ints = mePrior

\* C11: no line typed at the menu of MultiEditor.edit makes the editor raise,
\* and every field a running edit asks about is one of the fields the menu
\* offered (its zero-based index is in 0..n-1).
C11_NoRaise ==
    /\ mePc # "raised"
    /\ mePc \in {"edit_one", "edit_all"}
       => \A k \in 1..Len(meChoices) :
            meChoices[k] >= 0 /\ meChoices[k] < Len(me.items)

-----------------------------------------------------------------------------
(* IntInput.get_input_while as a process                                   *)

IntInputArgs ==
    { <<mx, mn, df>> :
        mx \in {None, Some(10), Some(100), Some(0 - 10)},
        mn \in {0, 1},
        df \in {None, Some(5), Some(50)} }

InitInt ==
    /\ disable_maxes \in BOOLEAN
    /\ IdleCodec /\ IdleSingle /\ IdleMulti /\ IdleChoice /\ IdleFetch /\ IdleNames
    /\ \E a \in IntInputArgs : ii = IntInput(a[1], a[2], a[3], TRUE)
    /\ iiPc = "prompting"
    /\ iiLine = NoLine
    /\ iiVal = None
    /\ iiRet = None
    /\ iiPrompts = 0

\* One turn of the loop of get_input_while: prompt, read a line, and either
\* return or prompt again.
IntInput_get_input_while(line) ==
    /\ iiPc = "prompting"
    /\ iiPrompts < MaxPrompts
    /\ LET r == get_input(ii, line) IN
       /\ iiLine' = r[2]
       /\ iiVal' = r[1]
       /\ iiPrompts' = iiPrompts + 1
       /\ IF r[1] # None
          THEN iiPc' = "returned" /\ iiRet' = r[1]
          ELSE IF r[2] = <<"q">>
               THEN iiPc' = "returned" /\ iiRet' = None
               ELSE iiPc' = "prompting" /\ iiRet' = iiRet
    /\ UNCHANGED <<disable_maxes, namesVars, fetchVars, ii, codecVars, singleVars, multiVars, choiceVars>>

\* The caller asks again with the same IntInput.
IntInput_call ==
    /\ iiPc = "returned"
    /\ iiPc' = "prompting"
    /\ iiLine' = NoLine
    /\ iiVal' = None
    /\ iiRet' = None
    /\ iiPrompts' = 0
    /\ UNCHANGED <<disable_maxes, namesVars, fetchVars, ii, codecVars, singleVars, multiVars, choiceVars>>

NextInt ==
    \/ \E line \in IntLines : IntInput_get_input_while(line)
    \/ IntInput_call

SpecInt == InitInt /\ [][NextInt]_vars

-----------------------------------------------------------------------------
(* Claims about IntInput                                                   *)

\* The clamp of v into [lo, hi], stated by cases.
Clamped(v, lo, hi) == IF v < lo THEN lo ELSE IF v > hi THEN hi ELSE v

C9_Default ==
    (iiLine = <<>> /\ ii.default # None)
    => /\ iiVal = ii.default
       /\ iiPc = "returned"
       /\ iiRet = ii.default

\* C9 case: the default 50 lies above max = 10 and is returned as it is.
C9_Witness ==
    /\ ii.default = Some(50) /\ ii.max = 10
    /\ iiLine = <<>>
    /\ iiPc = "returned"
    /\ iiRet = Some(50)

\* A line that get_input takes for a value: an integer, or nothing typed
\* when there is a default.
Parsable(line) == int(line) # None \/ (line = <<>> /\ ii.default # None)

\* C21: every turn of get_input_while goes from PROMPTING to one of three
\* places: a line that is no value and not "q" leads back to PROMPTING and
\* returns nothing; "q" ends the edit with no value; a value is returned
\* only for a line that is a value.
C21_StateMachine ==
    [][ (iiPc = "prompting" /\ iiPrompts' = iiPrompts + 1)
        => /\ (~Parsable(iiLine') /\ iiLine' # <<"q">>)
                => (iiPc' = "prompting" /\ iiRet' = None)
           /\ iiLine' = <<"q">> => (iiPc' = "returned" /\ iiRet' = None)
           /\ (iiPc' = "returned" /\ iiRet' # None) => Parsable(iiLine')
           /\ Parsable(iiLine') => (iiPc' = "returned" /\ iiRet' # None)
      ]_vars

\* C21 case: the first line was no value, the prompt was repeated and the
\* second line was "q".
C21_Witness ==
    /\ iiPrompts = 2 /\ iiPc = "returned"
    /\ iiLine = <<"q">> /\ iiRet = None

\* 2^31 - 1, the limit of a signed IntInput.
SignedLimit == 2147483647

\* The field edit_one is asking about.
Asked == PyIndex(Len(me.ints), meChoices[mePos])

-----------------------------------------------------------------------------
(* The fetcher called by one sequential caller                             *)

\* How many network GETs the fetcher issues in the model.
MaxGets == 2

\* Bodies of latest.txt: nothing, one to four tags, two tags and a final
\* newline.
LatestTexts ==
    { <<>>, <<"a">>, <<"a", "\n", "b">>, <<"a", "\n", "b", "\n", "c">>,
      <<"a", "\n", "b", "\n", "c", "\n", "d">>, <<"a", "\n", "b", "\n">> }

\* Regions: the four the fetcher knows and one it does not.
CountryCodes == {EN, JP, KR, TW, "xx"}

\* Pack names, file names and retry budgets callers pass.
Packs == { resLocal, <<"DataLocal">>, resLocal \o <<"_", "fr">> }
Files == {"f1"}
RetryBudgets == {0, 1, 2, 3}

\* What one GET can bring.
Responses == { Response(200, "b1"), Response(200, "b2"), Response(404, "e"), Timeout }

\* The locale matters to the EN region only.
GameDataGetters ==
    { GameDataGetter(cc, "en", text) : cc \in CountryCodes, text \in LatestTexts }
    \cup { GameDataGetter(EN, "fr", text) : text \in { <<>>, <<"a", "\n", "b">> } }

InitFetch ==
    /\ disable_maxes = FALSE
    /\ IdleInt /\ IdleCodec /\ IdleSingle /\ IdleMulti /\ IdleChoice /\ IdleNames
    /\ gdg \in GameDataGetters
    /\ cache = {}
    /\ firstSaved = {}
    /\ gets = 0
    /\ dl = IdleDl
    /\ batch = IdleBatch
    /\ tasks = <<>>
    /\ order = <<>>

\* The paths of `wrote` that had no bytes before, with the bytes they got.
FirstWrites(wrote, store) ==
    { <<path, read(store, path)>> : path \in { w \in wrote : ~exists(firstSaved, w) } }

\* download(pack_name, file_name, retries), up to its first GET or return.
\* (A new call leaves nothing of the batch that ran before it but its count.)
Download(pack_name, file_name, retries) ==
    /\ dl.pc \in {"idle", "returned"} /\ batch.pc # "running"
    /\ LET r == download_enter(gdg, cache, pack_name, file_name, retries)
           checked == is_downloaded_path(gdg, r.pack_name, file_name)
       IN  dl' = [IdleDl EXCEPT !.op = "download", !.arg_pack = pack_name,
                    !.pack_name = r.pack_name, !.file_name = file_name,
                    !.budget = retries, !.retries = r.retries, !.pc = r.pc,
                    !.ret = r.ret,
                    !.checked = (IF checked = None THEN {} ELSE {Val(checked)})
                        \cup (IF r.ret = None THEN {}
                              ELSE {Val(get_file_path(gdg, r.pack_name, file_name))})]
    /\ batch' = [IdleBatch EXCEPT !.calls = batch.calls]
    /\ tasks' = <<>>
    /\ order' = <<>>
    /\ UNCHANGED <<disable_maxes, namesVars, intVars, codecVars, singleVars, multiVars, choiceVars,
                   gdg, cache, firstSaved, gets>>

\* download_from_path("pack/file"): the pack name is adjusted, then download
\* is called with the default budget.
DownloadFromPath(pack_name, file_name) ==
    /\ dl.pc \in {"idle", "returned"} /\ batch.pc # "running"
    /\ LET r == download_enter(gdg, cache, get_packname(gdg, pack_name), file_name, 2)
           checked == is_downloaded_path(gdg, r.pack_name, file_name)
       IN  dl' = [IdleDl EXCEPT !.op = "download", !.arg_pack = pack_name,
                    !.pack_name = r.pack_name, !.file_name = file_name,
                    !.budget = 2, !.retries = r.retries, !.pc = r.pc,
                    !.ret = r.ret,
                    !.checked = (IF checked = None THEN {} ELSE {Val(checked)})
                        \cup (IF r.ret = None THEN {}
                              ELSE {Val(get_file_path(gdg, r.pack_name, file_name))})]
    /\ batch' = [IdleBatch EXCEPT !.calls = batch.calls]
    /\ tasks' = <<>>
    /\ order' = <<>>
    /\ UNCHANGED <<disable_maxes, namesVars, intVars, codecVars, singleVars, multiVars, choiceVars,
                   gdg, cache, firstSaved, gets>>

\* The GET of save_file inside download is answered; download runs on to
\* its return or to the GET of its next attempt.
DownloadGet(resp) ==
    /\ dl.op = "download" /\ dl.pc = "save_file"
    /\ gets < MaxGets
    /\ LET r == save_file_next(gdg, cache, dl.pack_name, dl.file_name, dl.retries, resp)
           checked == is_downloaded_path(gdg, r.pack_name, dl.file_name)
       IN  /\ dl' = [dl EXCEPT !.pc = r.pc, !.ret = r.ret,
                       !.pack_name = r.pack_name, !.retries = r.retries,
                       !.gets = @ + 1,
                       !.status_code = resp.status_code, !.content = resp.content,
                       !.urls = @ \cup {save_file_url(gdg, dl.pack_name, dl.file_name)},
                       !.wrote = @ \cup r.wrote,
                       !.checked = @ \cup (IF checked = None THEN {} ELSE {Val(checked)})]
           /\ cache' = r.store
           /\ firstSaved' = firstSaved \cup FirstWrites(r.wrote, r.store)
    /\ gets' = gets + 1
    /\ UNCHANGED <<disable_maxes, namesVars, intVars, codecVars, singleVars, multiVars, choiceVars,
                   gdg, batch, tasks, order>>

\* get_file(pack_name, file_name), up to its GET or return.
GetFile(pack_name, file_name) ==
    /\ dl.pc \in {"idle", "returned"} /\ batch.pc # "running"
    /\ dl' = [IdleDl EXCEPT !.op = "get_file", !.arg_pack = pack_name,
                !.pack_name = get_packname(gdg, pack_name), !.file_name = file_name,
                !.pc = IF gdg.latest_version = None THEN "returned" ELSE "get"]
    /\ batch' = [IdleBatch EXCEPT !.calls = batch.calls]
    /\ tasks' = <<>>
    /\ order' = <<>>
    /\ UNCHANGED <<disable_maxes, namesVars, intVars, codecVars, singleVars, multiVars, choiceVars,
                   gdg, cache, firstSaved, gets>>

\* The GET of get_file is answered.
GetFileGet(resp) ==
    /\ dl.op = "get_file" /\ dl.pc = "get"
    /\ gets < MaxGets
    /\ LET r == get_file_next(resp) IN
       dl' = [dl EXCEPT !.pc = r.pc, !.ret = r.ret, !.gets = @ + 1,
                !.status_code = resp.status_code, !.content = resp.content,
                !.urls = @ \cup {<<"repo", Val(gdg.latest_version), dl.pack_name, dl.file_name>>}]
    /\ gets' = gets + 1
    /\ UNCHANGED <<disable_maxes, namesVars, intVars, codecVars, singleVars, multiVars, choiceVars,
                   gdg, cache, firstSaved, batch, tasks, order>>

\* is_downloaded(pack_name, file_name)
IsDownloaded(pack_name, file_name) ==
    /\ dl.pc \in {"idle", "returned"} /\ batch.pc # "running"
    /\ LET checked == is_downloaded_path(gdg, pack_name, file_name) IN
       dl' = [IdleDl EXCEPT !.op = "is_downloaded", !.arg_pack = pack_name,
                !.pack_name = get_packname(gdg, pack_name), !.file_name = file_name,
                !.pc = "returned",
                !.flag = is_downloaded(gdg, cache, pack_name, file_name),
                !.checked = IF checked = None THEN {} ELSE {Val(checked)}]
    /\ batch' = [IdleBatch EXCEPT !.calls = batch.calls]
    /\ tasks' = <<>>
    /\ order' = <<>>
    /\ UNCHANGED <<disable_maxes, namesVars, intVars, codecVars, singleVars, multiVars, choiceVars,
                   gdg, cache, firstSaved, gets>>

NextFetch ==
    \/ \E p \in Packs, f \in Files, r \in RetryBudgets : Download(p, f, r)
    \/ \E p \in Packs, f \in Files : DownloadFromPath(p, f)
    \/ \E resp \in Responses : DownloadGet(resp)
    \/ \E p \in Packs, f \in Files : GetFile(p, f)
    \/ \E resp \in Responses : GetFileGet(resp)
    \/ \E p \in Packs, f \in Files : IsDownloaded(p, f)

SpecFetch == InitFetch /\ [][NextFetch]_vars

-----------------------------------------------------------------------------
(* download_all: the caller dispatches one download task per file name to  *)
(* core.thread_run_many, which runs them concurrently and returns when     *)
(* all of them have ended                                                  *)

\* How many times download_all is called in the model.
MaxBatches == 1

\* The lists of file names passed to download_all.
BatchFiles ==
    { <<>>, <<"f1">>, <<"f1", "f2">>, <<"f2", "f1">>, <<"f1", "f1">>,
      <<"f1", "f2", "f3">> }

\* The result list assembled in the order the file names were read backwards.
data_list_Reversed(self, store, pack_name, file_names) ==
    [i \in 1..Len(file_names) |->
        LET file_name == file_names[Len(file_names) + 1 - i]
            path == get_file_path(self, pack_name, file_name)
        IN  IF path = None THEN None
            ELSE IF ~exists(store, Val(path)) THEN None
            ELSE <<file_name, read(store, Val(path))>>]

\* download_all after thread_run_many: every file is read back from the
\* cache in the order of file_names.
data_list(self, store, pack_name, file_names) ==
    [i \in 1..Len(file_names) |->
        LET file_name == file_names[i]
            path == get_file_path(self, pack_name, file_name)
        IN  IF path = None THEN None
            ELSE IF ~exists(store, Val(path)) THEN None
            ELSE <<file_name, read(store, Val(path))>>]

\* A task has ended: download returned, or raised inside its thread.
Ended(t) == t.pc \in {"returned", "raised"}

\* The fetchers a batch is run on: EN with and without a pack of its
\* locale, JP, and TW without a version.
BatchGetters ==
    { GameDataGetter(EN, "fr", <<"a", "\n", "b">>), GameDataGetter(EN, "en", <<"a">>),
      GameDataGetter(JP, "en", <<"a", "\n", "b">>),
      GameDataGetter(TW, "en", <<"a", "\n", "b">>) }

InitBatch ==
    /\ disable_maxes = FALSE
    /\ IdleInt /\ IdleCodec /\ IdleSingle /\ IdleMulti /\ IdleChoice /\ IdleNames
    /\ gdg \in BatchGetters
    /\ cache = {}
    /\ firstSaved = {}
    /\ gets = 0
    /\ dl = IdleDl
    /\ batch = IdleBatch
    /\ tasks = <<>>
    /\ order = <<>>

\* download_all(pack_name, file_names) up to thread_run_many.
DownloadAll(pack_name, file_names) ==
    /\ dl.pc \in {"idle", "returned"}
    /\ batch.pc \in {"idle", "returned"}
    /\ batch.calls < MaxBatches
    /\ batch' = [pc |-> "running", arg_pack |-> pack_name,
                 pack_name |-> get_packname(gdg, pack_name),
                 file_names |-> file_names, data_list |-> <<>>,
                 calls |-> batch.calls + 1]
    /\ tasks' = [i \in 1..Len(file_names) |->
                    [pack_name |-> get_packname(gdg, pack_name),
                     file_name |-> file_names[i], retries |-> 2,
                     pc |-> "start"]]
    /\ order' = <<>>
    /\ dl' = IdleDl
    /\ UNCHANGED <<disable_maxes, namesVars, intVars, codecVars, singleVars, multiVars, choiceVars,
                   gdg, cache, firstSaved, gets>>

\* Task i runs download up to its GET or return.
TaskStart(i) ==
    /\ batch.pc = "running"
    /\ tasks[i].pc = "start"
    /\ LET t == tasks[i]
           r == download_enter(gdg, cache, t.pack_name, t.file_name, t.retries)
       IN  /\ tasks' = [tasks EXCEPT ![i] = [t EXCEPT !.pc = r.pc,
                           !.pack_name = r.pack_name, !.retries = r.retries]]
           /\ order' = IF r.pc = "save_file" THEN order ELSE Append(order, i)
    /\ UNCHANGED <<disable_maxes, namesVars, intVars, codecVars, singleVars, multiVars, choiceVars,
                   gdg, cache, firstSaved, gets, dl, batch>>

\* The GET of task i is answered; the task runs on to its next GET or end.
TaskGet(i, resp) ==
    /\ batch.pc = "running"
    /\ tasks[i].pc = "save_file"
    /\ LET t == tasks[i]
           r == save_file_next(gdg, cache, t.pack_name, t.file_name, t.retries, resp)
       IN  /\ tasks' = [tasks EXCEPT ![i] = [t EXCEPT !.pc = r.pc,
                           !.pack_name = r.pack_name, !.retries = r.retries]]
           /\ order' = IF r.pc = "save_file" THEN order ELSE Append(order, i)
           /\ cache' = r.store
           /\ firstSaved' = firstSaved \cup FirstWrites(r.wrote, r.store)
    /\ gets' = gets + 1
    /\ UNCHANGED <<disable_maxes, namesVars, intVars, codecVars, singleVars, multiVars, choiceVars,
                   gdg, dl, batch>>

\* thread_run_many returned: download_all assembles its result and returns.
DownloadAllReturn ==
    /\ batch.pc = "running"
    /\ \A i \in 1..Len(tasks) : Ended(tasks[i])
    /\ batch' = [batch EXCEPT !.pc = "returned",
                   !.data_list = data_list(gdg, cache, batch.pack_name, batch.file_names)]
    /\ UNCHANGED <<disable_maxes, namesVars, intVars, codecVars, singleVars, multiVars, choiceVars,
                   gdg, cache, firstSaved, gets, dl, tasks, order>>

NextBatch ==
    \/ \E p \in Packs, fs \in BatchFiles : DownloadAll(p, fs)
    \/ \E i \in 1..Len(tasks) : TaskStart(i)
    \/ \E i \in 1..Len(tasks), resp \in Responses : TaskGet(i, resp)
    \/ DownloadAllReturn

SpecBatch == InitBatch /\ [][NextBatch]_vars

\* One caller that uses the single calls and the batch call on the same
\* fetcher, for every region and version list.
NextGetter ==
    \/ \E r \in RetryBudgets : Download(resLocal, "f1", r)
    \/ DownloadFromPath(resLocal, "f1")
    \/ \E resp \in Responses : DownloadGet(resp)
    \/ GetFile(resLocal, "f1")
    \/ \E resp \in Responses : GetFileGet(resp)
    \/ IsDownloaded(resLocal, "f1")
    \/ DownloadAll(resLocal, <<"f1", "f2">>)
    \/ \E i \in 1..Len(tasks) : TaskStart(i)
    \/ \E i \in 1..Len(tasks), resp \in Responses : TaskGet(i, resp)
    \/ DownloadAllReturn

SpecGetter == InitFetch /\ [][NextGetter]_vars

-----------------------------------------------------------------------------
(* Claims about the fetcher                                                *)

\* The pack a request for pack_name is served from: resLocal becomes
\* resLocal_<locale> in the EN region when the locale has a pack of its own.
Adjusted(pack_name) ==
    IF pack_name = resLocal /\ gdg.cc = EN /\ gdg.lang \in get_langs
    THEN <<"resLocal", "_", gdg.lang>>
    ELSE pack_name

\* Where the cache keeps file_name of pack_name for the resolved version.
CachePath(pack_name, file_name) ==
    <<"game_data", Val(gdg.latest_version), Adjusted(pack_name), file_name>>

Cached(pack_name, file_name) ==
    gdg.latest_version # None /\ exists(cache, CachePath(pack_name, file_name))

C13_BatchOrder ==
    batch.pc = "returned"
    => /\ Len(batch.data_list) = Len(batch.file_names)
       /\ \A i \in 1..Len(batch.file_names) :
            \/ batch.data_list[i] = None
            \/ /\ Cached(batch.arg_pack, batch.file_names[i])
               /\ batch.data_list[i] =
                    <<batch.file_names[i],
                      read(cache, CachePath(batch.arg_pack, batch.file_names[i]))>>

\* C13 case: the task of the second file ended first and both files are in
\* the result.
C13_Witness ==
    /\ batch.pc = "returned"
    /\ batch.file_names = <<"f1", "f2">>
    /\ order = <<2, 1>>
    /\ batch.data_list[1] # None /\ batch.data_list[2] # None

\* The fixed index of a region in the version list; -1 for any other region.
RegionIndex(cc) ==
    IF cc = EN THEN 0 ELSE IF cc = JP THEN 1 ELSE IF cc = KR THEN 2
    ELSE IF cc = TW THEN 3 ELSE 0 - 1

\* C14: the resolved version is the entry at the region's index when the
\* list is long enough and None otherwise; while it is None no call issues a
\* GET or writes the cache, nothing raises, download and get_file return
\* None, is_downloaded returns False and download_all returns a list of None.
C14_Unavailable ==
    /\ LET k == RegionIndex(gdg.cc) IN
       gdg.latest_version =
          IF k >= 0 /\ Len(gdg.all_versions) >= k + 1
          THEN Some(gdg.all_versions[k + 1]) ELSE None
    /\ gdg.latest_version = None
       => /\ gets = 0 /\ cache = {}
          /\ dl.pc # "raised" /\ dl.ret = None /\ ~dl.flag
          /\ \A i \in 1..Len(tasks) : tasks[i].pc # "raised"
          /\ batch.pc = "returned"
             => /\ Len(batch.data_list) = Len(batch.file_names)
                /\ \A i \in 1..Len(batch.data_list) : batch.data_list[i] = None

\* C14 case: the TW region with a list of two entries; a batch of two
\* download tasks has returned.
C14_Witness ==
    /\ gdg.cc = TW /\ Len(gdg.all_versions) = 2
    /\ batch.pc = "returned" /\ Len(batch.file_names) = 2
    /\ \A i \in 1..Len(tasks) : tasks[i].pc = "returned"

\* C15: a GET that times out is like a GET without data: the call returns
\* None and nothing is raised to the caller.
C15_TimeoutAbsent == dl.pc # "raised"

\* C16: within one call, the path looked up in the cache, the URL requested
\* and the path written all carry the same pack: the adjusted pack name of
\* the call; get_packname applied twice is get_packname applied once.
C16_PackConsistent ==
    /\ \A path \in dl.checked \cup dl.wrote : path[3] = Adjusted(dl.arg_pack)
    /\ \A url \in dl.urls : url[3] = Adjusted(dl.arg_pack)
    /\ \A p \in Packs :
         /\ get_packname(gdg, get_packname(gdg, p)) = get_packname(gdg, p)
         /\ get_packname(gdg, p) = Adjusted(p)

\* C16 case: a download of resLocal in the EN region with the locale fr
\* looked in the cache, requested and wrote.
C16_Witness ==
    /\ dl.op = "download" /\ dl.arg_pack = resLocal
    /\ gdg.cc = EN /\ gdg.lang = "fr"
    /\ dl.checked # {} /\ dl.urls # {} /\ dl.wrote # {}

\* C17: no two tasks of a batch that are both about to fetch and write have
\* the same cache path as their target.
C17_DistinctPaths ==
    \A i \in 1..Len(tasks) : \A j \in 1..Len(tasks) :
        (i # j /\ tasks[i].pc = "save_file" /\ tasks[j].pc = "save_file")
        => save_file_path(gdg, tasks[i].pack_name, tasks[i].file_name)
           # save_file_path(gdg, tasks[j].pack_name, tasks[j].file_name)

\* C22: a download whose attempts all came back without data has issued no
\* more GETs than the budget it was called with, and with that many issued
\* it has returned None.
C22_RetryBound ==
    (dl.op = "download" /\ dl.wrote = {} /\ dl.pc # "raised")
    => /\ dl.gets <= dl.budget
       /\ dl.gets >= dl.budget => (dl.pc = "returned" /\ dl.ret = None)

\* C23: a GET answered with a status other than 200 leaves the cache as it
\* is and gives None (get_file returns None; save_file returns None, so that
\* download has nothing to return); an entry enters the cache only in the
\* step of a GET answered 200, with the bytes of that answer.
C23_FailedAttempt ==
    /\ [][ (gets' = gets + 1 /\ dl'.pc # "raised" /\ dl'.status_code # 200)
           => (cache' = cache /\ dl'.ret = None /\ dl'.wrote = dl.wrote) ]_vars
    /\ [][ \A e \in cache' \ cache :
              /\ gets' = gets + 1
              /\ dl'.status_code = 200 /\ e[2] = dl'.content ]_vars

\* C23 case: the one GET of a download was answered 404 with a body; the
\* call returned None and the cache is empty.
C23_Witness ==
    /\ dl.op = "download" /\ dl.pc = "returned" /\ dl.gets = 1
    /\ dl.status_code = 404 /\ dl.content = "e"
    /\ dl.ret = None /\ cache = {}

-----------------------------------------------------------------------------
(* EnigmaNames: the name table of one download session                     *)

\* How many EnigmaNames objects are built, one after the other, in the model.
MaxSessions == 2

\* The largest number of rows of StageName_RH_<lang>.csv in the model.
MaxRows == 3

\* str(id) as a key of the JSON object, for the ids of the model.
str(id) == <<CHOOSE c \in Digits : DigitVal(c) = id>>

\* names[id] = name on a dict.
put(names, id, name) ==
    [k \in DOMAIN names \cup {id} |-> IF k = id THEN name ELSE names[k]]

\* read_enigma_names: the entries of the JSON object, under int(key).
read_enigma_names(file) ==
    [id \in { Val(int(key)) : key \in DOMAIN file } |-> file[str(id)]]

\* save_enigma_names: the JSON object written from the dict.
save_enigma_names(names) ==
    [key \in { str(id) : id \in DOMAIN names } |-> names[Val(int(key))]]

\* The ids get_enigma_names dispatches a name fetch for: every row number
\* that is not below the number of entries read from the file.
ids_to_download(rows, total_downloaded) ==
    { i \in 0..(rows - 1) : i >= total_downloaded }

\* What the page of one id can bring: a heading with a name, a heading that
\* is blank, no page or no heading, or no answer in time.
NamePages ==
    { [kind |-> "name", name |-> "A"], [kind |-> "name", name |-> "B"],
      [kind |-> "blank", name |-> ""], [kind |-> "absent", name |-> ""],
      [kind |-> "timeout", name |-> ""] }

\* download_enigma_name: what the task leaves in self.enigma_names.
download_enigma_name(names, id, page) ==
    IF page.kind = "name" THEN put(names, id, Some(page.name))
    ELSE IF page.kind = "blank" THEN put(names, id, None)
    ELSE names

InitNames ==
    /\ disable_maxes = FALSE
    /\ IdleInt /\ IdleCodec /\ IdleSingle /\ IdleMulti /\ IdleChoice /\ IdleFetch
    /\ names_file = <<>>
    /\ ns = IdleSession

\* EnigmaNames(save_file) whose download of the csv gave nothing:
\* get_enigma_names returns after the read, and the dict is saved.
SessionWithoutCsv ==
    /\ ns.pc \in {"idle", "done"}
    /\ ns.calls < MaxSessions
    /\ enigma_names' = read_enigma_names(names_file)
    /\ names_file' = save_enigma_names(read_enigma_names(names_file))
    /\ ns' = [IdleSession EXCEPT !.pc = "done", !.loaded = DOMAIN read_enigma_names(names_file),
                !.writer = "caller", !.calls = ns.calls + 1]
    /\ UNCHANGED <<disable_maxes, fetchVars, intVars, singleVars, multiVars, choiceVars,
                   enigma, data, encoded, redata, cpc, edits, editErr, wipe_in, menu_in>>

\* EnigmaNames(save_file) up to thread_run_many: the file is read and one
\* task per missing row of the csv is dispatched.
SessionStart(rows) ==
    /\ ns.pc \in {"idle", "done"}
    /\ ns.calls < MaxSessions
    /\ enigma_names' = read_enigma_names(names_file)
    /\ ns' = [IdleSession EXCEPT !.pc = "fetching",
                !.loaded = DOMAIN read_enigma_names(names_file),
                !.pending = ids_to_download(rows, Cardinality(DOMAIN names_file)),
                !.writer = "caller", !.calls = ns.calls + 1]
    /\ UNCHANGED <<disable_maxes, fetchVars, intVars, singleVars, multiVars, choiceVars,
                   names_file, enigma, data, encoded, redata, cpc, edits, editErr, wipe_in, menu_in>>

\* One task runs download_enigma_name(id) to its end.
NameTask(id, page) ==
    /\ ns.pc = "fetching"
    /\ id \in ns.pending
    /\ enigma_names' = download_enigma_name(enigma_names, id, page)
    /\ ns' = [ns EXCEPT !.pending = @ \ {id}, !.fetched = @ \cup {id},
                !.writer = IF page.kind \in {"name", "blank"} THEN "task" ELSE @,
                !.running = IF page.kind \in {"name", "blank"}
                            THEN Cardinality(ns.pending) ELSE @]
    /\ UNCHANGED <<disable_maxes, fetchVars, intVars, singleVars, multiVars, choiceVars,
                   names_file, enigma, data, encoded, redata, cpc, edits, editErr, wipe_in, menu_in>>

\* thread_run_many returned: get_enigma_names returns and the dict is saved.
SessionSave ==
    /\ ns.pc = "fetching"
    /\ ns.pending = {}
    /\ names_file' = save_enigma_names(enigma_names)
    /\ ns' = [ns EXCEPT !.pc = "done"]
    /\ UNCHANGED <<disable_maxes, fetchVars, intVars, singleVars, multiVars, choiceVars,
                   enigma, enigma_names, data, encoded, redata, cpc, edits, editErr, wipe_in, menu_in>>

NextNames ==
    \/ SessionWithoutCsv
    \/ \E rows \in 0..MaxRows : SessionStart(rows)
    \/ \E id \in 0..(MaxRows - 1), page \in NamePages : NameTask(id, page)
    \/ SessionSave

SpecNames == InitNames /\ [][NextNames]_vars

-----------------------------------------------------------------------------
(* Claims about the name table                                             *)

\* C18: the dict of a session is never written by a name-fetch task.
C18_CallerWrites == ns.writer # "task"

\* C19: an id that has an entry in the persisted table is not fetched again
\* by a later session, and its entry is neither removed nor replaced.
C19_AppendOnly ==
    /\ [](\A id \in ns.fetched : id \notin ns.loaded)
    /\ [][ \A key \in DOMAIN names_file :
              key \in DOMAIN names_file' /\ names_file'[key] = names_file[key] ]_vars

\* The menu positions (from 1) the last edit_enigma got back from its menu.
Selected ==
    LET nl == names_list(enigma_names) IN
    get_input_locale(ChoiceInput(nl, nl, FALSE, TRUE), menu_in').vals

\* The stages the last edit_enigma appended.
Appended ==
    LET n == Len(enigma'.stages) IN SubSeq(enigma'.stages, n - Len(Selected) + 1, n)

\* C26: every stage edit_enigma appends for a menu entry has stage_id 25000
\* plus the id of the table whose name stood at that menu position, and every
\* appended stage_id is 25000 plus an id of the table.
C26_StageOfEntry ==
    [][ (edits' = edits + 1 /\ ~editErr')
        => LET keys == sorted(DOMAIN enigma_names) IN
           \A k \in 1..Len(Selected) :
              /\ (Appended[k].stage_id - base_level) \in DOMAIN enigma_names
              /\ Selected[k] \in 1..Len(keys)
                    => Appended[k].stage_id = base_level + keys[Selected[k]] ]_vars

\* C27: edit_enigma leaves the five header fields alone; without a confirmed
\* wipe the stages are the former stages followed by one stage per selected
\* entry in selection order, after a confirmed wipe they are the stages of
\* the selection alone.
C27_OnlyStages ==
    [][ (edits' = edits + 1 /\ ~editErr')
        => /\ enigma' = [enigma EXCEPT !.stages = enigma'.stages]
           /\ LET kept == IF wipe_in' = yes_key THEN <<>> ELSE enigma.stages IN
              /\ Len(enigma'.stages) = Len(kept) + Len(Selected)
              /\ SubSeq(enigma'.stages, 1, Len(kept)) = kept
              /\ \A k \in 1..Len(Selected) :
                    enigma'.stages[Len(kept) + k].stage_id
                       = base_level + Selected[k] - 1 ]_vars

\* C27 case: a record of one stage was edited, the wipe declined and the
\* entries 2 and 1 selected in that order.
C27_Witness ==
    /\ ~editErr /\ wipe_in = <<"n">> /\ menu_in = <<"2", " ", "1">>
    /\ Len(enigma.stages) = 3
    /\ enigma.stages[2].stage_id = base_level + 1
    /\ enigma.stages[3].stage_id = base_level

\* C20: edit_enigma never raises, whatever the name table holds for the
\* stages of the record.
C20_UnknownDisplayable == ~editErr

====
